---- MODULE Spec2Model ----
(***************************************************************************)
(* Model of langserver/loader.go of bingo: position resolution, narrowing   *)
(* of a multi-package directory, the memoised typecheck and the typecheck   *)
(* pass itself.                                                             *)
(***************************************************************************)
EXTENDS Integers, Sequences, FiniteSets, TLC

VARIABLES
    \* ---- cachedTypecheck (concurrent callers) ----
    pc,          \* per caller: "idle", "get", "fill", "load", "wait", "panicked"
    req,         \* per caller: the *build.Package of the running request
    cancelled,   \* per caller: the request context of the running call is cancelled
    importErr,   \* per caller: findPackage returned an error to the loader
    res,         \* per caller: the typecheckResult the fill closure builds
    cache,       \* h.typecheckCache: key -> [ready, value]
    invoked,     \* per (importPath, srcDir, name): number of typecheck invocations
    nextId,      \* allocator of FileSet / Program identities
    ncalls,      \* number of cachedTypecheck calls started
    returned,    \* history of the values returned by cachedTypecheck
    engine,      \* what the loader produces for each unit (the file system)
    \* ---- sequential operations on one input ----
    tcIn, tcOut,         \* typecheck
    bpIn, bpOut, heap,   \* buildPackageForNamedFileInMultiPackageDir
    lpIn, lpOut          \* loadPackage

cacheVars == <<pc, req, cancelled, importErr, res, cache, invoked, nextId, ncalls, returned, engine>>
tcVars    == <<tcIn, tcOut>>
bpVars    == <<bpIn, bpOut, heap>>
lpVars    == <<lpIn, lpOut>>
seqVars   == <<tcVars, bpVars, lpVars>>
vars      == <<cacheVars, seqVars>>

\* ------------------------------------------------------------------ bounds
NumCallers == 2
MaxCalls   == 3
MaxFiles   == 2

\* ------------------------------------------------------------------ strings
\* A string is a sequence of one-character strings.
TestSuffix == <<"_", "t", "e", "s", "t">>
NameP      == <<"p">>
NameMain   == <<"m">>
NamePTest  == NameP \o TestSuffix

HasSuffix(s, suf) ==
    /\ Len(s) >= Len(suf)
    /\ SubSeq(s, Len(s) - Len(suf) + 1, Len(s)) = suf

TrimSuffix(s, suf) ==
    IF HasSuffix(s, suf) THEN SubSeq(s, 1, Len(s) - Len(suf)) ELSE s

\* buildutil.JoinPath(bctx, dir, filename)
JoinPath(dir, filename) == dir \o <<"/">> \o filename

\* ------------------------------------------------------------------ nil values
NilProg  == [id |-> 0, importsOK |-> FALSE]
NilFset  == 0
NilDiags == << >>
NoErr    == "nil"

\* ------------------------------------------------------------------ typecheck
\* errsToDiagnostics: one diagnostic per collected error, in order.
errsToDiagnostics(typeErrs) ==
    [i \in 1..Len(typeErrs) |-> [severity |-> "error", message |-> typeErrs[i]]]

\* Variant: XTestGoFiles are appended whatever the name.
goFilesOf_alwaysXTest(bpkg) ==
    LET l2 == bpkg.GoFiles \o bpkg.TestGoFiles \o bpkg.XTestGoFiles
    IN  [i \in 1..Len(l2) |-> JoinPath(bpkg.Dir, l2[i])]

\* The file list handed to conf.CreateFromFilenames.
goFilesOf(bpkg) ==
    LET l1 == bpkg.GoFiles \o bpkg.TestGoFiles
        l2 == IF HasSuffix(bpkg.Name, TestSuffix) THEN l1 \o bpkg.XTestGoFiles ELSE l1
    IN  [i \in 1..Len(l2) |-> JoinPath(bpkg.Dir, l2[i])]

\* typecheck(ctx, fset, bctx, bpkg, findPackage).  eng is what conf.Load
\* does on the unit's files: eng.prog (a program was built), eng.loadErr
\* (Load returned an error), eng.typeErrs (errors reported through
\* TypeChecker.Error).  impErr: findPackage failed for an import.  convErr:
\* errsToDiagnostics returned an error.  id: identity of the new program.
typecheck(bpkg, eng, impErr, convErr, id) ==
    LET goFiles  == goFilesOf(bpkg)
        typeErrs == IF impErr THEN eng.typeErrs \o <<"import">> ELSE eng.typeErrs
        prog     == IF eng.prog THEN [id |-> id, importsOK |-> ~impErr] ELSE NilProg
    IN  IF eng.loadErr /\ prog = NilProg
        THEN [goFiles |-> goFiles, prog |-> NilProg, diags |-> NilDiags, err |-> "load"]
        ELSE IF convErr
        THEN [goFiles |-> goFiles, prog |-> NilProg, diags |-> NilDiags, err |-> "conv"]
        ELSE [goFiles |-> goFiles, prog |-> prog, diags |-> errsToDiagnostics(typeErrs), err |-> NoErr]

\* ------------------------------------------------------------------ cachedTypecheck
Callers == 1..NumCallers

CacheUnits ==
    { [ImportPath |-> <<"a">>, Dir |-> <<"d">>, Name |-> n,
       GoFiles |-> <<<<"f">>>>, TestGoFiles |-> << >>, XTestGoFiles |-> <<<<"x">>>>] :
      n \in {NameP, NamePTest} }

UnitKey(bpkg) == <<bpkg.ImportPath, bpkg.Dir, bpkg.Name>>
UnitKeys == { UnitKey(u) : u \in CacheUnits }

EngineOutcomes ==
    { [prog |-> TRUE,  loadErr |-> FALSE, typeErrs |-> << >>],
      [prog |-> TRUE,  loadErr |-> FALSE, typeErrs |-> <<"syntax">>],
      [prog |-> TRUE,  loadErr |-> TRUE,  typeErrs |-> <<"syntax", "type">>],
      [prog |-> FALSE, loadErr |-> TRUE,  typeErrs |-> << >>] }

\* Variant: the key is taken per request descriptor.
typecheckKey_perRequest(b) == <<b.pkg.ImportPath, b.pkg.Dir, b.pkg.Name, <<b.ptr>>>>

\* The key of h.typecheckCache.Get.  b is the request: b.ptr is the
\* identity of the caller's descriptor, b.pkg its fields.
typecheckKey(b) == <<b.pkg.ImportPath, b.pkg.Dir, b.pkg.Name>>

NilRes == [isNil |-> TRUE, fset |-> NilFset, prog |-> NilProg, err |-> NoErr]
NoReq  == [ptr |-> 0, pkg |-> CHOOSE u \in CacheUnits : TRUE]

EmptyCache == [k \in {} |-> [ready |-> FALSE, value |-> NilRes]]

CacheInit ==
    /\ pc = [c \in Callers |-> "idle"]
    /\ req = [c \in Callers |-> NoReq]
    /\ cancelled = [c \in Callers |-> FALSE]
    /\ importErr = [c \in Callers |-> FALSE]
    /\ res = [c \in Callers |-> NilRes]
    /\ cache = EmptyCache
    /\ invoked = [k \in UnitKeys |-> 0]
    /\ nextId = 1
    /\ ncalls = 0
    /\ returned = {}
    /\ engine \in [UnitKeys -> EngineOutcomes]

\* What cachedTypecheck returns for the cache's answer r and the caller's
\* local diags.
cachedTypecheckReturn(r, diags) ==
    IF r.isNil
    THEN [fset |-> NilFset, prog |-> NilProg, diags |-> diags, err |-> NoErr]
    ELSE [fset |-> r.fset, prog |-> r.prog, diags |-> diags, err |-> r.err]

\* cachedTypecheck is left (by return or by panic): the call's locals die.
Leave(c) ==
    /\ pc' = [pc EXCEPT ![c] = "idle"]
    /\ req' = [req EXCEPT ![c] = NoReq]
    /\ cancelled' = [cancelled EXCEPT ![c] = FALSE]
    /\ importErr' = [importErr EXCEPT ![c] = FALSE]
    /\ res' = [res EXCEPT ![c] = NilRes]

\* A request enters cachedTypecheck with its own context and descriptor.
Call(c, u) ==
    /\ pc[c] = "idle"
    /\ ncalls < MaxCalls
    /\ ncalls' = ncalls + 1
    /\ req' = [req EXCEPT ![c] = [ptr |-> c, pkg |-> u]]
    /\ cancelled' = [cancelled EXCEPT ![c] = FALSE]
    /\ importErr' = [importErr EXCEPT ![c] = FALSE]
    /\ res' = [res EXCEPT ![c] = NilRes]
    /\ pc' = [pc EXCEPT ![c] = "get"]
    /\ UNCHANGED <<cache, invoked, nextId, returned, engine, seqVars>>

\* typecheckCache.Get, miss: the entry is registered unready and the fill
\* closure starts with a new FileSet.
GetMiss(c) ==
    /\ pc[c] = "get"
    /\ typecheckKey(req[c]) \notin DOMAIN cache
    /\ cache' = [k \in DOMAIN cache \cup {typecheckKey(req[c])} |->
                   IF k \in DOMAIN cache THEN cache[k]
                   ELSE [ready |-> FALSE, value |-> NilRes]]
    /\ invoked' = [invoked EXCEPT ![UnitKey(req[c].pkg)] = @ + 1]
    /\ res' = [res EXCEPT ![c] = [isNil |-> FALSE, fset |-> nextId, prog |-> NilProg, err |-> NoErr]]
    /\ nextId' = nextId + 1
    /\ pc' = [pc EXCEPT ![c] = "fill"]
    /\ UNCHANGED <<req, cancelled, importErr, ncalls, returned, engine, seqVars>>

\* typecheckCache.Get, hit: wait for the entry to become ready.
GetHit(c) ==
    /\ pc[c] = "get"
    /\ typecheckKey(req[c]) \in DOMAIN cache
    /\ pc' = [pc EXCEPT ![c] = "wait"]
    /\ UNCHANGED <<req, cancelled, importErr, res, cache, invoked, nextId, ncalls, returned, engine, seqVars>>

\* conf.FindPackage: the loader resolves the unit's imports through
\* findPackage(ctx, ...), with the context of the caller that started the
\* computation.  A cancelled context may make findPackage fail.
FindPackage(c) ==
    /\ pc[c] = "fill"
    /\ \E failed \in (IF cancelled[c] THEN BOOLEAN ELSE {FALSE}) :
          importErr' = [importErr EXCEPT ![c] = failed]
    /\ pc' = [pc EXCEPT ![c] = "load"]
    /\ UNCHANGED <<req, cancelled, res, cache, invoked, nextId, ncalls, returned, engine, seqVars>>

\* conf.Load and the rest of typecheck finish; the closure returns res, the
\* cache publishes it and cachedTypecheck returns.
Load(c) ==
    /\ pc[c] = "load"
    /\ \E convErr \in BOOLEAN :
         LET t == typecheck(req[c].pkg, engine[UnitKey(req[c].pkg)], importErr[c], convErr, res[c].fset)
             r == [res[c] EXCEPT !.prog = t.prog, !.err = t.err]
         IN  /\ cache' = [cache EXCEPT ![typecheckKey(req[c])] = [ready |-> TRUE, value |-> r]]
             /\ returned' = returned \cup
                   { [unit |-> UnitKey(req[c].pkg), filled |-> TRUE, ret |-> cachedTypecheckReturn(r, t.diags)] }
    /\ Leave(c)
    /\ UNCHANGED <<invoked, nextId, ncalls, engine, seqVars>>

\* The computation panics: the entry becomes ready with no value and the
\* panic unwinds the caller that ran it.
LoadPanic(c) ==
    /\ pc[c] \in {"fill", "load"}
    /\ cache' = [cache EXCEPT ![typecheckKey(req[c])] = [ready |-> TRUE, value |-> NilRes]]
    /\ Leave(c)
    /\ UNCHANGED <<invoked, nextId, ncalls, returned, engine, seqVars>>

\* A waiting caller is handed the published value and returns.
Wait(c) ==
    /\ pc[c] = "wait"
    /\ cache[typecheckKey(req[c])].ready
    /\ returned' = returned \cup
          { [unit |-> UnitKey(req[c].pkg), filled |-> FALSE,
             ret |-> cachedTypecheckReturn(cache[typecheckKey(req[c])].value, NilDiags)] }
    /\ Leave(c)
    /\ UNCHANGED <<cache, invoked, nextId, ncalls, engine, seqVars>>

\* The request context of a running call is cancelled.
Cancel(c) ==
    /\ pc[c] # "idle"
    /\ ~cancelled[c]
    /\ cancelled' = [cancelled EXCEPT ![c] = TRUE]
    /\ UNCHANGED <<pc, req, importErr, res, cache, invoked, nextId, ncalls, returned, engine, seqVars>>

SeqIdle ==
    /\ tcIn = 0 /\ tcOut = 0
    /\ bpIn = 0 /\ bpOut = 0 /\ heap = 0
    /\ lpIn = 0 /\ lpOut = 0

Init == CacheInit /\ SeqIdle

Next ==
    \/ \E c \in Callers, u \in CacheUnits : Call(c, u)
    \/ \E c \in Callers : GetMiss(c)
    \/ \E c \in Callers : GetHit(c)
    \/ \E c \in Callers : FindPackage(c)
    \/ \E c \in Callers : Load(c)
    \/ \E c \in Callers : LoadPanic(c)
    \/ \E c \in Callers : Wait(c)
    \/ \E c \in Callers : Cancel(c)

Spec == Init /\ [][Next]_vars

\* ------------------------------------------------------------------ typecheck alone
FileNames == {<<"a">>, <<"b">>, <<"c">>}

\* Sequences without repetition over S, of length at most n.
InjSeqs(S, n) ==
    UNION { { q \in [1..k -> S] : \A i, j \in 1..k : q[i] = q[j] => i = j } : k \in 0..n }

Range(q) == { q[i] : i \in 1..Len(q) }

PkgNames == {NameP, NamePTest, NameMain, TestSuffix}

\* go/build puts a file in exactly one of the three lists.
BuildPackages ==
    { [ImportPath |-> <<"a">>, Dir |-> <<"d">>, Name |-> n,
       GoFiles |-> g, TestGoFiles |-> t, XTestGoFiles |-> x] :
      n \in PkgNames, g \in InjSeqs(FileNames, MaxFiles),
      t \in InjSeqs(FileNames, MaxFiles), x \in InjSeqs(FileNames, MaxFiles) }

CacheIdle ==
    /\ pc = [c \in Callers |-> "idle"]
    /\ req = [c \in Callers |-> NoReq]
    /\ cancelled = [c \in Callers |-> FALSE]
    /\ importErr = [c \in Callers |-> FALSE]
    /\ res = [c \in Callers |-> NilRes]
    /\ cache = EmptyCache
    /\ invoked = [k \in UnitKeys |-> 0]
    /\ nextId = 1
    /\ ncalls = 0
    /\ returned = {}
    /\ engine = [k \in UnitKeys |-> CHOOSE e \in EngineOutcomes : ~e.prog]

TcInit ==
    /\ CacheIdle
    /\ bpIn = 0 /\ bpOut = 0 /\ heap = 0
    /\ lpIn = 0 /\ lpOut = 0
    /\ tcOut = [done |-> FALSE]
    /\ \E b \in BuildPackages, e \in EngineOutcomes :
          /\ Range(b.GoFiles) \cap Range(b.TestGoFiles) = {}
          /\ Range(b.GoFiles) \cap Range(b.XTestGoFiles) = {}
          /\ Range(b.TestGoFiles) \cap Range(b.XTestGoFiles) = {}
          /\ tcIn = [bpkg |-> b, eng |-> e]

\* One call of typecheck with a live context.
Typecheck ==
    /\ ~tcOut.done
    /\ \E impErr \in BOOLEAN, convErr \in BOOLEAN :
          tcOut' = [done |-> TRUE, impErr |-> impErr, convErr |-> convErr,
                    out |-> typecheck(tcIn.bpkg, tcIn.eng, impErr, convErr, 1)]
    /\ UNCHANGED <<tcIn, cacheVars, bpVars, lpVars>>

TcNext == Typecheck

SpecTypecheck == TcInit /\ [][TcNext]_vars

\* ------------------------------------------------------------------ buildPackageForNamedFileInMultiPackageDir
\* The heap: pkgs is the sequence of allocated packages.Package structs
\* (a pointer is an index, 0 is nil), arrs the allocated backing arrays.  A
\* slice is [arr, len]; arr = 0 is the nil slice.
SliceContent(h, sl) == IF sl.arr = 0 THEN << >> ELSE SubSeq(h.arrs[sl.arr], 1, sl.len)

\* Variant: no copy is taken, the caller's struct is used.
copyPackage_alias(h, p) == [heap |-> h, ptr |-> p]

\* copy := *bpkg; bpkg = &copy
copyPackage(h, p) ==
    [heap |-> [h EXCEPT !.pkgs = Append(h.pkgs, h.pkgs[p])], ptr |-> Len(h.pkgs) + 1]

\* fileToPkgName[f]: the package name of the last entry of m.Files equal
\* to f, "" when there is none.
fileToPkgName(m, f) ==
    LET idx == { i \in 1..Len(m.Files) : m.Files[i] = f }
    IN  IF idx = {} THEN << >>
        ELSE m.Packages[CHOOSE i \in idx : \A j \in idx : j <= i]

\* filterToFilesInPackage: keep grows by append from the nil slice.
filterToFilesInPackage(h, files, m, pkgName) ==
    LET keep == SelectSeq(SliceContent(h, files), LAMBDA f : fileToPkgName(m, f) = pkgName)
    IN  IF keep = << >>
        THEN [heap |-> h, slice |-> [arr |-> 0, len |-> 0]]
        ELSE [heap |-> [h EXCEPT !.arrs = Append(h.arrs, keep)],
              slice |-> [arr |-> Len(h.arrs) + 1, len |-> Len(keep)]]

buildPackageForNamedFileInMultiPackageDir(h, p, m, filename) ==
    LET c       == copyPackage(h, p)
        pkgName == fileToPkgName(m, filename)
        nonXTestPkgName ==
            IF HasSuffix(pkgName, TestSuffix) THEN TrimSuffix(pkgName, TestSuffix) ELSE pkgName
        k       == filterToFilesInPackage(c.heap, c.heap.pkgs[c.ptr].GoFiles, m, nonXTestPkgName)
    IN  IF pkgName = << >>
        THEN [heap |-> c.heap, ptr |-> 0, err |-> "no file"]
        ELSE [heap |-> [k.heap EXCEPT !.pkgs[c.ptr].Name = pkgName,
                                      !.pkgs[c.ptr].GoFiles = k.slice],
              ptr |-> c.ptr, err |-> NoErr]

\* build.MultiplePackageError: Files[i] declares package Packages[i].
MultiErrs ==
    UNION { { [Files |-> fs, Packages |-> ps] : ps \in [1..Len(fs) -> PkgNames] } :
            fs \in (InjSeqs(FileNames, MaxFiles) \ {<< >>}) }

NoFset == << >>

BpInit ==
    /\ CacheIdle
    /\ tcIn = 0 /\ tcOut = 0
    /\ lpIn = 0 /\ lpOut = 0
    /\ bpOut = [done |-> FALSE]
    /\ \E g \in InjSeqs(FileNames, MaxFiles), n \in PkgNames, m \in MultiErrs, f \in FileNames :
          /\ bpIn = [Name |-> n, GoFiles |-> g, m |-> m, filename |-> f]
          /\ heap = [pkgs |-> << [Name |-> n, PkgPath |-> <<"a">>, Fset |-> NoFset,
                                  GoFiles |-> [arr |-> IF g = << >> THEN 0 ELSE 1, len |-> Len(g)]] >>,
                     arrs |-> IF g = << >> THEN << >> ELSE << g >>]

BuildPackage ==
    /\ ~bpOut.done
    /\ LET r == buildPackageForNamedFileInMultiPackageDir(heap, 1, bpIn.m, bpIn.filename)
       IN  /\ heap' = r.heap
           /\ bpOut' = [done |-> TRUE, ptr |-> r.ptr, err |-> r.err]
    /\ UNCHANGED <<bpIn, cacheVars, tcVars, lpVars>>

BpNext == BuildPackage

SpecBuild == BpInit /\ [][BpNext]_vars

\* ------------------------------------------------------------------ loadPackage
MaxLen  == 3    \* bytes of file contents
MaxSize == 2    \* size of a file registered in the FileSet
MaxLine == 2    \* largest requested line

NoPos == 0
NL    == "\n"

LpFiles == {<<"a">>, <<"b">>}
LpDir   == <<"d">>

\* path.Base: what follows the last slash.
Base(path) ==
    LET slashes == { i \in 1..Len(path) : path[i] = "/" }
        last    == IF slashes = {} THEN 0 ELSE CHOOSE i \in slashes : \A j \in slashes : j <= i
    IN  SubSeq(path, last + 1, Len(path))

\* offsetForPosition(contents, position): the byte offset of the 0-based
\* (line, character); invalid when the line is not in the file or the
\* character lies beyond the end of the line.
offsetForPosition(contents, line, char) ==
    LET nls       == { i \in 1..Len(contents) : contents[i] = NL }
        lineStart == IF line = 0 THEN 0
                     ELSE IF Cardinality(nls) < line THEN -1
                     ELSE CHOOSE i \in nls : Cardinality({ j \in nls : j <= i }) = line
        after     == { i \in nls : i > lineStart }
        lineEnd   == IF after = {} THEN Len(contents)
                     ELSE (CHOOSE i \in after : \A j \in after : i <= j) - 1
    IN  IF lineStart = -1 THEN [offset |-> 0, valid |-> FALSE, why |-> "line"]
        ELSE IF char > lineEnd - lineStart THEN [offset |-> 0, valid |-> FALSE, why |-> "character"]
        ELSE [offset |-> lineStart + char, valid |-> TRUE, why |-> ""]

\* A token.FileSet is the sequence of its files, [name, size]; the base of
\* the first file is 1 and each file takes size + 1 positions.
RECURSIVE FileBase(_, _)
FileBase(fset, i) == IF i = 1 THEN 1 ELSE FileBase(fset, i - 1) + fset[i - 1].size + 1

\* token.File.Pos(offset).  An offset beyond the file's size panics in the
\* go/token the repository was written against and is clamped to the file's
\* size by later releases: mode selects the toolchain.
FilePos(fset, i, offset, mode) ==
    IF offset <= fset[i].size THEN [panic |-> FALSE, pos |-> FileBase(fset, i) + offset]
    ELSE IF mode = "panic" THEN [panic |-> TRUE, pos |-> NoPos]
    ELSE [panic |-> FALSE, pos |-> FileBase(fset, i) + fset[i].size]

posForFileOffset(fset, filename, offset, mode) ==
    LET found == { i \in 1..Len(fset) : fset[i].name = filename }
    IN  IF found = {} THEN [panic |-> FALSE, pos |-> NoPos]
        ELSE FilePos(fset, CHOOSE i \in found : \A j \in found : i <= j, offset, mode)

\* Variant: start is assigned before the validity of the position is tested.
resolvePosition_posBeforeCheck(pkg, fset, filename, contents, line, char, mode) ==
    LET o == offsetForPosition(contents, line, char)
        s == posForFileOffset(fset, filename, o.offset, mode)
    IN  IF s.panic
        THEN [state |-> "panicked", pkg |-> 0, pos |-> NoPos, err |-> NoErr]
        ELSE IF ~o.valid
        THEN [state |-> "returned", pkg |-> 0, pos |-> s.pos, err |-> "invalid position"]
        ELSE IF s.pos = NoPos
        THEN [state |-> "returned", pkg |-> 0, pos |-> NoPos, err |-> "invalid location"]
        ELSE [state |-> "returned", pkg |-> pkg, pos |-> s.pos, err |-> NoErr]

\* loadPackage from offsetForPosition on (lines 284-294).
resolvePosition(pkg, fset, filename, contents, line, char, mode) ==
    LET o == offsetForPosition(contents, line, char)
        s == posForFileOffset(fset, filename, o.offset, mode)
    IN  IF ~o.valid
        THEN [state |-> "returned", pkg |-> 0, pos |-> NoPos, err |-> "invalid position"]
        ELSE IF s.panic
        THEN [state |-> "panicked", pkg |-> 0, pos |-> NoPos, err |-> NoErr]
        ELSE IF s.pos = NoPos
        THEN [state |-> "returned", pkg |-> 0, pos |-> NoPos, err |-> "invalid location"]
        ELSE [state |-> "returned", pkg |-> pkg, pos |-> s.pos, err |-> NoErr]

Fsets ==
    UNION { { [i \in 1..Len(ns) |-> [name |-> JoinPath(LpDir, ns[i]), size |-> sz[i]]] :
              sz \in [1..Len(ns) -> 0..MaxSize] } : ns \in InjSeqs(LpFiles, 2) }

Contents == UNION { [1..n -> {"x", NL}] : n \in 0..MaxLen }

LpMultiErrs == { m \in MultiErrs : Range(m.Files) \subseteq LpFiles /\ Range(m.Packages) \subseteq {NameP, NamePTest} }

Running == [state |-> "running", pkg |-> 0, pos |-> NoPos, err |-> NoErr]

LpInit ==
    /\ CacheIdle
    /\ tcIn = 0 /\ tcOut = 0
    /\ bpIn = 0 /\ bpOut = 0
    /\ heap = [pkgs |-> << >>, arrs |-> << >>]
    /\ lpOut = Running
    /\ \E u \in BOOLEAN, f \in LpFiles :
          lpIn = [pc |-> "enter", isURI |-> u, filename |-> JoinPath(LpDir, f), pkg |-> 0,
                  contents |-> << >>, line |-> 0, char |-> 0, valid |-> FALSE, offset |-> 0]

\* loadPackage up to h.FilePath: a non-URI is refused.
LpEnter ==
    /\ lpIn.pc = "enter"
    /\ IF ~lpIn.isURI
       THEN /\ lpOut' = [Running EXCEPT !.state = "returned", !.err = "out of workspace"]
            /\ lpIn' = [lpIn EXCEPT !.pc = "done"]
       ELSE /\ lpIn' = [lpIn EXCEPT !.pc = "load"]
            /\ UNCHANGED lpOut
    /\ UNCHANGED <<heap, bpIn, bpOut, cacheVars, tcVars>>

\* h.load succeeds: the package cache hands out a package with its FileSet.
LpLoadOk ==
    /\ lpIn.pc = "load"
    /\ \E fs \in Fsets :
          heap' = [pkgs |-> << [Name |-> NameP, PkgPath |-> <<"a">>, Fset |-> fs,
                                GoFiles |-> [arr |-> 1, len |-> 2]] >>,
                   arrs |-> << <<<<"a">>, <<"b">>>> >>]
    /\ lpIn' = [lpIn EXCEPT !.pc = "read", !.pkg = 1]
    /\ UNCHANGED <<lpOut, bpIn, bpOut, cacheVars, tcVars>>

\* h.load reports a MultiplePackageError: the package is narrowed to the
\* one of the requested file.
LpLoadMulti ==
    /\ lpIn.pc = "load"
    /\ \E fs \in Fsets, m \in LpMultiErrs :
          LET h0 == [pkgs |-> << [Name |-> NameP, PkgPath |-> <<"a">>, Fset |-> fs,
                                  GoFiles |-> [arr |-> 1, len |-> 2]] >>,
                     arrs |-> << <<<<"a">>, <<"b">>>> >>]
              r  == buildPackageForNamedFileInMultiPackageDir(h0, 1, m, Base(lpIn.filename))
          IN  /\ heap' = r.heap
              /\ IF r.err # NoErr
                 THEN /\ lpOut' = [Running EXCEPT !.state = "returned", !.err = r.err]
                      /\ lpIn' = [lpIn EXCEPT !.pc = "done"]
                 ELSE /\ lpIn' = [lpIn EXCEPT !.pc = "read", !.pkg = r.ptr]
                      /\ UNCHANGED lpOut
    /\ UNCHANGED <<bpIn, bpOut, cacheVars, tcVars>>

\* h.load fails with another error.
LpLoadErr ==
    /\ lpIn.pc = "load"
    /\ lpOut' = [Running EXCEPT !.state = "returned", !.err = "load"]
    /\ lpIn' = [lpIn EXCEPT !.pc = "done"]
    /\ UNCHANGED <<heap, bpIn, bpOut, cacheVars, tcVars>>

\* h.readFile fails.
LpReadErr ==
    /\ lpIn.pc = "read"
    /\ lpOut' = [Running EXCEPT !.state = "returned", !.err = "read"]
    /\ lpIn' = [lpIn EXCEPT !.pc = "done"]
    /\ UNCHANGED <<heap, bpIn, bpOut, cacheVars, tcVars>>

\* h.readFile returns the current contents; the position is resolved.
LpResolve ==
    /\ lpIn.pc = "read"
    /\ \E cs \in Contents, line \in 0..MaxLine, char \in 0..MaxLen, mode \in {"panic", "clamp"} :
          LET o == offsetForPosition(cs, line, char)
          IN  /\ lpIn' = [lpIn EXCEPT !.pc = "done", !.contents = cs, !.line = line, !.char = char,
                                      !.valid = o.valid, !.offset = o.offset]
              /\ lpOut' = resolvePosition(lpIn.pkg, heap.pkgs[lpIn.pkg].Fset, lpIn.filename,
                                          cs, line, char, mode)
    /\ UNCHANGED <<heap, bpIn, bpOut, cacheVars, tcVars>>

LpNext == LpEnter \/ LpLoadOk \/ LpLoadMulti \/ LpLoadErr \/ LpReadErr \/ LpResolve

SpecLoad == LpInit /\ [][LpNext]_vars

\* ================================================================== claims
UnitOfKey(k) == CHOOSE u \in CacheUnits : UnitKey(u) = k

\* C1: for every key (importPath, srcDir, name), typecheck is invoked at
\* most once, and exactly once as soon as any cachedTypecheck call with
\* that key is past the cache lookup or has returned; at most one caller
\* runs the analysis of a key.
C1_TypecheckOncePerKey ==
    \A k \in UnitKeys :
        /\ invoked[k] <= 1
        /\ (\E r \in returned : r.unit = k) => invoked[k] = 1
        /\ \A c \in Callers :
              (pc[c] \in {"fill", "load", "wait"} /\ UnitKey(req[c].pkg) = k) => invoked[k] = 1
        /\ \A c1, c2 \in Callers :
              ( /\ pc[c1] \in {"fill", "load"} /\ pc[c2] \in {"fill", "load"}
                /\ UnitKey(req[c1].pkg) = k /\ UnitKey(req[c2].pkg) = k ) => c1 = c2

\* One caller runs the analysis of a key while another caller waits for it.
C1_Witness ==
    \E c1, c2 \in Callers :
        /\ pc[c1] = "load" /\ pc[c2] = "wait"
        /\ UnitKey(req[c1].pkg) = UnitKey(req[c2].pkg)
        /\ invoked[UnitKey(req[c1].pkg)] = 1

\* C2: all cachedTypecheck calls with equal keys return the same fset, the
\* same program, the same diagnostics and the same terminal error.
C2_EqualKeysSameResult ==
    \A r1, r2 \in returned : r1.unit = r2.unit => r1.ret = r2.ret

C10_NilErrorImpliesResult ==
    \A r \in returned :
        r.ret.err = NoErr => (r.ret.fset # NilFset /\ r.ret.prog # NilProg)

\* The unit name denotes the external-test variant.
IsXTestName(n) == \E k \in 0..Len(n) : n = SubSeq(n, 1, k) \o TestSuffix

\* The package name the multi-package error records for file f.
DeclaredName(m, f) == fileToPkgName(m, f)

\* C3: on success the result carries the package name the requested file
\* declares, and its file list is exactly the input GoFiles declared under
\* that same name, in input order.
C3_FilesOfRequestedUnit ==
    (bpOut.done /\ bpOut.err = NoErr) =>
        LET r == heap.pkgs[bpOut.ptr]
            n == DeclaredName(bpIn.m, bpIn.filename)
        IN  /\ r.Name = n
            /\ SliceContent(heap, r.GoFiles) =
                  SelectSeq(bpIn.GoFiles, LAMBDA f : DeclaredName(bpIn.m, f) = n)

\* C5: typecheck returns a terminal error only when the loader produced no
\* program; when the loader produced one, typecheck returns it with a nil
\* error.
C5_TerminalOnlyWithoutProgram ==
    tcOut.done =>
        /\ tcOut.out.err # NoErr => ~tcIn.eng.prog
        /\ tcIn.eng.prog => (tcOut.out.prog # NilProg /\ tcOut.out.err = NoErr)

\* C6: the file list handed to the loader is GoFiles, then TestGoFiles,
\* then XTestGoFiles exactly when the name ends in "_test", each joined
\* with the directory; without that suffix no XTestGoFiles entry is listed.
C6_GoFilesOrder ==
    tcOut.done =>
        LET b  == tcIn.bpkg
            l  == tcOut.out.goFiles
            ng == Len(b.GoFiles)
            nt == Len(b.TestGoFiles)
            nx == Len(b.XTestGoFiles)
        IN  /\ Len(l) = ng + nt + (IF IsXTestName(b.Name) THEN nx ELSE 0)
            /\ \A i \in 1..ng : l[i] = b.Dir \o <<"/">> \o b.GoFiles[i]
            /\ \A i \in 1..nt : l[ng + i] = b.Dir \o <<"/">> \o b.TestGoFiles[i]
            /\ IsXTestName(b.Name) =>
                  \A i \in 1..nx : l[ng + nt + i] = b.Dir \o <<"/">> \o b.XTestGoFiles[i]
            /\ ~IsXTestName(b.Name) =>
                  \A i \in 1..nx : \A j \in 1..Len(l) : l[j] # b.Dir \o <<"/">> \o b.XTestGoFiles[i]

\* typecheck has run on a unit without the "_test" suffix that has files
\* of all three kinds.
C6_Witness ==
    /\ tcOut.done
    /\ ~IsXTestName(tcIn.bpkg.Name)
    /\ tcIn.bpkg.GoFiles # << >>
    /\ tcIn.bpkg.TestGoFiles # << >>
    /\ tcIn.bpkg.XTestGoFiles # << >>
    /\ Len(tcOut.out.goFiles) = 2

\* C9: after the call the caller's descriptor (pointer 1) has the name and
\* the file list it had before, its backing array is untouched, and the
\* file list of the result does not use the input's backing array.
C9_InputDescriptorUnchanged ==
    bpOut.done =>
        /\ heap.pkgs[1].Name = bpIn.Name
        /\ SliceContent(heap, heap.pkgs[1].GoFiles) = bpIn.GoFiles
        /\ heap.pkgs[1].GoFiles.arr # 0 => heap.arrs[heap.pkgs[1].GoFiles.arr] = bpIn.GoFiles
        /\ bpOut.ptr # 0 =>
              \/ heap.pkgs[bpOut.ptr].GoFiles.arr = 0
              \/ heap.pkgs[bpOut.ptr].GoFiles.arr # heap.pkgs[1].GoFiles.arr

\* A successful call whose result differs from the input in name and in
\* file list.
C9_Witness ==
    /\ bpOut.done
    /\ bpOut.ptr # 0
    /\ heap.pkgs[bpOut.ptr].Name # bpIn.Name
    /\ heap.pkgs[bpOut.ptr].GoFiles.len > 0
    /\ heap.pkgs[bpOut.ptr].GoFiles.len < Len(bpIn.GoFiles)

\* The FileSet index of the requested file, 0 when it is not registered.
RegisteredIndex ==
    LET fs    == heap.pkgs[lpIn.pkg].Fset
        found == { i \in 1..Len(fs) : fs[i].name = lpIn.filename }
    IN  IF found = {} THEN 0 ELSE CHOOSE i \in found : \A j \in found : i <= j

\* C7: a returned error comes with a nil package and NoPos; a nil error
\* comes with a non-nil package and a handle other than NoPos.
C7_NoHandleWithFailure ==
    lpOut.state = "returned" =>
        /\ lpOut.err # NoErr => (lpOut.pkg = 0 /\ lpOut.pos = NoPos)
        /\ lpOut.err = NoErr => (lpOut.pkg # 0 /\ lpOut.pos # NoPos)

\* Character 2 on the one-byte line "x" has been refused.
C7_Witness ==
    /\ lpOut.state = "returned"
    /\ lpOut.err = "invalid position"
    /\ lpIn.contents = <<"x">>
    /\ lpIn.line = 0
    /\ lpIn.char = 2
    /\ RegisteredIndex # 0

\* C8: when the offset computed from the current contents is valid but the
\* file is not registered in the package's FileSet, or the offset exceeds
\* the registered file's size, loadPackage returns the invalid-location
\* error with NoPos, and does not panic.
C8_UnmappableOffsetIsInvalidLocation ==
    ( /\ lpIn.pc = "done"
      /\ lpIn.valid
      /\ \/ RegisteredIndex = 0
         \/ lpIn.offset > heap.pkgs[lpIn.pkg].Fset[RegisteredIndex].size ) =>
        /\ lpOut.state = "returned"
        /\ lpOut.err = "invalid location"
        /\ lpOut.pos = NoPos

====
